---- MODULE Spec2Model ----
(***************************************************************************)
(* The WhatsApp session relay of the vittasaathi repository: the upsert    *)
(* handlers, fallback routers, Control API and connection handlers of the  *)
(* bot scripts                                                             *)
(*   v2     src/whatsapp-bot/index.js                                      *)
(*   v30    src/unnamed/part_004                                           *)
(*   v31    src/unnamed/part_003                                           *)
(*   v32    src/whatsapp-bot/README.md, lines 77-340                       *)
(*   v30n8n src/whatsapp-bot/README.md, lines 342-552                      *)
(* Strings the code inspects character by character (phone numbers, JIDs)  *)
(* are sequences of one-character strings; texts the code only forwards    *)
(* are TLA+ strings.                                                       *)
(***************************************************************************)
EXTENDS Integers, Sequences, FiniteSets, TLC

VARIABLES
    variant,      \* which bot script is running
    sock,         \* the global `sock`: 0 = undefined, n = the n-th socket made
    sockState,    \* sockState[n]: what the n-th socket last emitted
    starting,     \* startBot calls suspended before makeWASocket
    timers,       \* pending setTimeout(startBot, ...) timers
    isConnected,  \* the global `isConnected`
    lastConn,     \* history: the last 'open'/'close' update handled
    h,            \* the running messages.upsert handler
    post,         \* the last POST /send request and its response
    fnIn,         \* input of the canonicalization functions
    fnOp,         \* the canonicalization last applied to fnIn
    fnOut,        \* its result
    reconnectAttempts,  \* the global `reconnectAttempts` of v2 and v30
    authFolder,   \* ./auth_info: "none", "empty" (no credentials) or "creds"
    running,      \* the node process has not exited
    ev,           \* history: the startBot call or connection.update handled last
    loggedOut,    \* history: a close with status loggedOut has been handled
    streak,       \* history: the closes since the last 'open' or process start
    health,       \* the response to the last GET /health
    late          \* a messages.upsert handler started while h was suspended

vars == <<variant, sock, sockState, starting, timers, isConnected, lastConn,
          h, post, fnIn, fnOp, fnOut,
          reconnectAttempts, authFolder, running, ev, loggedOut, streak, health, late>>

connVars == <<sock, sockState, starting, timers, isConnected, lastConn>>
canonVars == <<fnIn, fnOp, fnOut>>
supVars == <<reconnectAttempts, authFolder, running, ev, loggedOut, streak>>

Variants == {"v2", "v30", "v30n8n", "v31", "v32"}
\* the scripts with an express app (GET /health, POST /send)
ApiVariants == {"v30n8n", "v31", "v32"}

(***************************************************************************)
(* Strings                                                                 *)
(***************************************************************************)
DigitChars == {"0", "1", "2", "3", "4", "5", "6", "7", "8", "9"}

\* JavaScript null / undefined
Null == <<"null">>

AT_S_WHATSAPP_NET ==
    <<"@", "s", ".", "w", "h", "a", "t", "s", "a", "p", "p", ".", "n", "e", "t">>
AT_LID == <<"@", "l", "i", "d">>
AT_G_US == <<"@", "g", ".", "u", "s">>
STATUS_BROADCAST ==
    <<"s", "t", "a", "t", "u", "s", "@", "b", "r", "o", "a", "d", "c", "a", "s", "t">>
CC91 == <<"9", "1">>
\* eight digits, to build numbers from
D8 == <<"9", "8", "7", "6", "5", "4", "3", "2">>
\* a ten-digit number without country code
LOCAL_NUMBER == D8 \o <<"1", "0">>

\* s.startsWith(p)
StartsWith(s, p) == Len(s) >= Len(p) /\ SubSeq(s, 1, Len(p)) = p

\* s.endsWith(p)
EndsWith(s, p) == Len(s) >= Len(p) /\ SubSeq(s, Len(s) - Len(p) + 1, Len(s)) = p

\* s.replace(/p$/, '') for a literal p
StripSuffix(s, p) == IF EndsWith(s, p) THEN SubSeq(s, 1, Len(s) - Len(p)) ELSE s

IsDigit(c) == c \in DigitChars

\* s.replace(/[^0-9]/g, '')
DigitsOnly(s) == SelectSeq(s, IsDigit)

\* a direct chat, number with country code
USER_JID == CC91 \o D8 \o <<"1", "0">> \o AT_S_WHATSAPP_NET
\* a direct chat whose user part has ten digits
LOCAL_JID == LOCAL_NUMBER \o AT_S_WHATSAPP_NET
\* a direct chat under the anonymized scheme
LID_JID == D8 \o D8 \o AT_LID
GROUP_JID == <<"1", "2", "0", "3">> \o D8 \o AT_G_US
\* key.participant of a message under the anonymized scheme
PARTICIPANT_JID == <<"7", "0">> \o D8 \o AT_S_WHATSAPP_NET


(***************************************************************************)
(* Phone canonicalization                                                  *)
(***************************************************************************)
\* mutant of extractPhone: only the suffix is removed
extractPhone_SuffixOnly(jid) ==
    IF jid = Null \/ jid = <<>>
    THEN Null
    ELSE StripSuffix(StripSuffix(jid, AT_S_WHATSAPP_NET), AT_LID)

\* part_003 extractPhone(jid)
extractPhone(jid) ==
    IF jid = Null \/ jid = <<>>
    THEN Null
    ELSE LET phone == DigitsOnly(StripSuffix(StripSuffix(jid, AT_S_WHATSAPP_NET), AT_LID))
         IN  IF Len(phone) = 10 THEN CC91 \o phone ELSE phone

\* part_003 POST /send, "Format phone number": cleanPhone
CleanPhone(phone) ==
    LET cleanPhone == DigitsOnly(phone)
    IN  IF ~StartsWith(cleanPhone, CC91) /\ Len(cleanPhone) = 10
        THEN CC91 \o cleanPhone
        ELSE cleanPhone

(***************************************************************************)
(* Inputs of the canonicalization: strings built from at most MaxChunks    *)
(* pieces                                                                  *)
(***************************************************************************)
MaxChunks == 2

Chunks == { CC91, <<"7", "0">>, D8,
            <<"+">>, <<"a", "b">>, AT_S_WHATSAPP_NET, AT_LID }

RECURSIVE Strings(_)
Strings(n) ==
    IF n = 0 THEN {<<>>}
    ELSE LET shorter == Strings(n - 1)
         IN  shorter \cup { s \o c : s \in shorter, c \in Chunks }

PhoneInputs == Strings(MaxChunks)

InitCanon ==
    /\ fnIn \in PhoneInputs
    /\ fnOp = "none"
    /\ fnOut = Null

\* extractPhone is applied to the input
ApplyExtractPhone ==
    /\ fnOp' = "extractPhone"
    /\ fnOut' = extractPhone(fnIn)
    /\ UNCHANGED <<variant, late, health, connVars, h, post, fnIn, supVars>>

\* extractPhone is applied to the value it returned
ReapplyExtractPhone ==
    /\ fnOp = "extractPhone"
    /\ fnOp' = "extractPhone twice"
    /\ fnOut' = extractPhone(fnOut)
    /\ UNCHANGED <<variant, late, health, connVars, h, post, fnIn, supVars>>

\* the number formatting of POST /send is applied to the number it produced
ReapplyCleanPhone ==
    /\ fnOp = "cleanPhone"
    /\ fnOp' = "cleanPhone twice"
    /\ fnOut' = CleanPhone(fnOut)
    /\ UNCHANGED <<variant, late, health, connVars, h, post, fnIn, supVars>>

\* the number formatting of POST /send is applied to the input
ApplyCleanPhone ==
    /\ fnOp' = "cleanPhone"
    /\ fnOut' = CleanPhone(fnIn)
    /\ UNCHANGED <<variant, late, health, connVars, h, post, fnIn, supVars>>

(***************************************************************************)
(* Connection handling of the relay scripts (v31, v32, v30n8n): startBot   *)
(* and the connection.update handler                                       *)
(***************************************************************************)
MaxSockets == 3

\* DisconnectReason.loggedOut
LoggedOut == 401
\* the status codes a close carries: logged out, timed out
CloseStatuses == {LoggedOut, 408}

Sockets == 1..Len(sockState)

InitConn ==
    /\ sock = 0
    /\ sockState = <<>>
    /\ starting = 1
    /\ timers = 0
    /\ isConnected = FALSE
    /\ lastConn = "none"

\* startBot, after its awaits: sock = makeWASocket(...), handlers registered
MakeSocket ==
    /\ variant \in ApiVariants
    /\ starting > 0
    /\ Len(sockState) < MaxSockets
    /\ starting' = starting - 1
    /\ sockState' = Append(sockState, "connecting")
    /\ sock' = Len(sockState) + 1
    /\ UNCHANGED <<variant, late, health, timers, isConnected, lastConn, h, post, canonVars, supVars>>

\* connection.update with connection === 'open', from socket s
ConnOpen(s) ==
    /\ variant \in ApiVariants
    /\ sockState[s] = "connecting"
    /\ sockState' = [sockState EXCEPT ![s] = "open"]
    /\ isConnected' = TRUE
    /\ lastConn' = "open"
    /\ UNCHANGED <<variant, late, health, sock, starting, timers, h, post, canonVars, supVars>>

\* shouldReconnect of the relay scripts
ShouldReconnect(statusCode) == statusCode # LoggedOut

\* connection.update with connection === 'close', from socket s
ConnClose(s, statusCode) ==
    /\ variant \in ApiVariants
    /\ sockState[s] \in {"connecting", "open"}
    /\ sockState' = [sockState EXCEPT ![s] = "closed"]
    /\ isConnected' = FALSE
    /\ lastConn' = "close"
    /\ timers' = IF ShouldReconnect(statusCode) THEN timers + 1 ELSE timers
    /\ loggedOut' = (loggedOut \/ statusCode = LoggedOut)
    /\ UNCHANGED <<variant, late, health, sock, starting, h, post, canonVars,
                   reconnectAttempts, authFolder, running, ev, streak>>

\* connection.update with connection === 'close' from a socket that has
\* emitted 'close' before (the one in use or an earlier one): the handler
\* runs again; at most MaxSockets startBot calls are pending at a time
ConnCloseRepeated(s, statusCode) ==
    /\ variant \in ApiVariants
    /\ sockState[s] = "closed"
    /\ timers + starting < MaxSockets
    /\ isConnected' = FALSE
    /\ lastConn' = "close"
    /\ timers' = IF ShouldReconnect(statusCode) THEN timers + 1 ELSE timers
    /\ loggedOut' = (loggedOut \/ statusCode = LoggedOut)
    /\ UNCHANGED <<variant, late, health, sock, sockState, starting, h, post, canonVars,
                   reconnectAttempts, authFolder, running, ev, streak>>

\* a setTimeout(startBot, 5000) timer fires: startBot runs up to its first await
TimerFire ==
    /\ timers > 0
    /\ timers' = timers - 1
    /\ starting' = starting + 1
    /\ UNCHANGED <<variant, late, health, sock, sockState, isConnected, lastConn, h, post, canonVars, supVars>>

(***************************************************************************)
(* Reconnection supervisor of v2 (index.js) and v30 (part_004): the        *)
(* counter reconnectAttempts, the auth folder and the restart timers.      *)
(* A socket emits 'close' once; start_bot.bat starts index.js again when   *)
(* its process has exited.                                                 *)
(***************************************************************************)
SupVariants == {"v2", "v30"}

\* sockets made in one behaviour
MaxStarts == 6

MAX_RECONNECT_V2 == 5
MAX_RECONNECT_V30 == 3
MAX_RECONNECT(v) == IF v = "v2" THEN MAX_RECONNECT_V2 ELSE MAX_RECONNECT_V30

\* the status code of a session conflict
Conflict == 440
\* the status codes a close carries: logged out, timed out, conflict
SupCloseStatuses == {LoggedOut, 408, Conflict}

NoEv ==
    [kind |-> "none", sock |-> 0, status |-> 0, before |-> 0, wiped |-> FALSE,
     delay |-> 0]

\* the supervisor variables of a script that has no counter
InitSupIdle ==
    /\ reconnectAttempts = 0
    /\ authFolder = "creds"
    /\ running = TRUE
    /\ ev = NoEv
    /\ loggedOut = FALSE
    /\ streak = 0

\* the process has called startBot, which has created the auth folder if
\* there was none; credentials of an earlier pairing may be in it
InitSup ==
    /\ reconnectAttempts = 0
    /\ authFolder \in {"empty", "creds"}
    /\ running = TRUE
    /\ ev = [NoEv EXCEPT !.kind = "start"]
    /\ loggedOut = FALSE
    /\ streak = 0

\* mutant of WipesOnStart: startBot never clears the session
WipesOnStart_Never(v, attempts) == FALSE

\* startBot: "Clear old auth if too many reconnects" (index.js only)
WipesOnStart(v, attempts) == v = "v2" /\ attempts >= MAX_RECONNECT_V2

\* shouldReconnect of the close branch
Recoverable(v, statusCode) ==
    IF v = "v2"
    THEN statusCode # LoggedOut
    ELSE statusCode # LoggedOut /\ statusCode # Conflict

\* a close branch in which a conflict restart needs retry budget too
SchedulesRestart_ConflictOnBudget(v, statusCode, attempts) ==
    IF v = "v2"
    THEN Recoverable(v, statusCode) /\ attempts < MAX_RECONNECT_V2
    ELSE \/ statusCode = LoggedOut
         \/ statusCode # LoggedOut /\ attempts < MAX_RECONNECT_V30

\* the close branch calls setTimeout(startBot, ...)
SchedulesRestart(v, statusCode, attempts) ==
    IF v = "v2"
    THEN Recoverable(v, statusCode) /\ attempts < MAX_RECONNECT_V2
    ELSE \/ statusCode = Conflict
         \/ statusCode = LoggedOut
         \/ Recoverable(v, statusCode) /\ attempts < MAX_RECONNECT_V30

\* the delay of that setTimeout, in milliseconds
ReconnectDelay(v, statusCode) ==
    IF v = "v2" THEN 3000
    ELSE IF statusCode = Conflict THEN 3000
    ELSE IF statusCode = LoggedOut THEN 2000
    ELSE 5000

\* mutant of WipesOnClose: every close removes the auth folder
WipesOnClose_Any(v, statusCode) == TRUE

\* the close branch calls fs.rmSync(CONFIG.AUTH_FOLDER) (part_004 only)
WipesOnClose(v, statusCode) ==
    v = "v30" /\ statusCode \in {Conflict, LoggedOut}

\* the close branch calls process.exit(0) (index.js only)
ExitsOnClose(v, statusCode, attempts) ==
    /\ v = "v2"
    /\ ~(Recoverable(v, statusCode) /\ attempts < MAX_RECONNECT_V2)
    /\ statusCode = LoggedOut

\* a close branch that counts every recoverable close
AttemptsAfterClose_Uncapped(v, statusCode, attempts) ==
    IF v = "v30" /\ statusCode = Conflict THEN 0
    ELSE IF Recoverable(v, statusCode) THEN attempts + 1 ELSE attempts

\* reconnectAttempts after the close branch
AttemptsAfterClose(v, statusCode, attempts) ==
    IF v = "v2"
    THEN IF Recoverable(v, statusCode) /\ attempts < MAX_RECONNECT_V2
         THEN attempts + 1 ELSE attempts
    ELSE IF statusCode = Conflict THEN 0
    ELSE IF statusCode = LoggedOut THEN attempts
    ELSE IF Recoverable(v, statusCode) /\ attempts < MAX_RECONNECT_V30
    THEN attempts + 1 ELSE attempts

\* mutant of AttemptsAfterOpen: the counter is left as it is
AttemptsAfterOpen_Kept(attempts) == attempts

\* reconnectAttempts after the open branch
AttemptsAfterOpen(attempts) == 0

\* a setTimeout(startBot, ...) timer fires: startBot runs up to its first
\* await (the wipe after too many reconnects, the creation of the folder)
SupStart ==
    /\ variant \in SupVariants
    /\ running
    /\ timers > 0
    /\ timers' = timers - 1
    /\ starting' = starting + 1
    /\ LET wipe == WipesOnStart(variant, reconnectAttempts)
       IN  /\ reconnectAttempts' = IF wipe THEN 0 ELSE reconnectAttempts
           /\ authFolder' = IF wipe \/ authFolder = "none" THEN "empty" ELSE authFolder
           /\ ev' = [NoEv EXCEPT !.kind = "start", !.before = reconnectAttempts,
                                 !.wiped = wipe /\ authFolder = "creds"]
    /\ UNCHANGED <<variant, late, health, sock, sockState, isConnected, lastConn, h, post, canonVars,
                   running, loggedOut, streak>>

\* startBot, after its awaits: makeWASocket(...), handlers registered; the
\* socket is kept in a local constant in v2 and in the global in v30
SupMakeSocket ==
    /\ variant \in SupVariants
    /\ running
    /\ starting > 0
    /\ Len(sockState) < MaxStarts
    /\ starting' = starting - 1
    /\ sockState' = Append(sockState, "connecting")
    /\ sock' = IF variant = "v30" THEN Len(sockState) + 1 ELSE sock
    /\ UNCHANGED <<variant, late, health, timers, isConnected, lastConn, h, post, canonVars, supVars>>

\* connection.update with connection === 'open', from socket s; the
\* credentials of the session have been saved by then (creds.update)
SupOpen(s) ==
    /\ variant \in SupVariants
    /\ running
    /\ sockState[s] = "connecting"
    /\ sockState' = [sockState EXCEPT ![s] = "open"]
    /\ lastConn' = "open"
    /\ reconnectAttempts' = AttemptsAfterOpen(reconnectAttempts)
    /\ authFolder' = "creds"
    /\ streak' = 0
    /\ ev' = [NoEv EXCEPT !.kind = "open", !.sock = s, !.before = reconnectAttempts]
    /\ UNCHANGED <<variant, late, health, sock, starting, timers, isConnected, h, post, canonVars,
                   running, loggedOut>>

\* connection.update with connection === 'close', from socket s
SupClose(s, statusCode) ==
    /\ variant \in SupVariants
    /\ running
    /\ sockState[s] \in {"connecting", "open"}
    /\ lastConn' = "close"
    /\ LET schedules == SchedulesRestart(variant, statusCode, reconnectAttempts)
           wipes == WipesOnClose(variant, statusCode)
           exits == ExitsOnClose(variant, statusCode, reconnectAttempts)
       IN  /\ reconnectAttempts' =
                 AttemptsAfterClose(variant, statusCode, reconnectAttempts)
           /\ authFolder' = IF wipes THEN "none" ELSE authFolder
           /\ running' = ~exits
           /\ timers' = IF exits THEN 0
                        ELSE IF schedules THEN timers + 1 ELSE timers
           /\ starting' = IF exits THEN 0 ELSE starting
           /\ sockState' = IF exits
                           THEN [i \in DOMAIN sockState |-> "closed"]
                           ELSE [sockState EXCEPT ![s] = "closed"]
           /\ ev' = [kind |-> "close", sock |-> s, status |-> statusCode,
                     before |-> reconnectAttempts,
                     wiped |-> wipes /\ authFolder = "creds",
                     delay |-> IF schedules /\ ~exits
                               THEN ReconnectDelay(variant, statusCode) ELSE 0]
    /\ loggedOut' = (loggedOut \/ statusCode = LoggedOut)
    /\ streak' = IF Recoverable(variant, statusCode) THEN streak + 1 ELSE 0
    /\ UNCHANGED <<variant, late, health, sock, isConnected, h, post, canonVars>>

\* connection.update with connection === 'close' from a socket that has
\* emitted 'close' before (the one in use or an earlier one): the close
\* branch runs again; at most MaxSockets startBot calls are pending at a
\* time and at most MaxStarts closes are handled in a row
SupCloseRepeated(s, statusCode) ==
    /\ variant \in SupVariants
    /\ running
    /\ sockState[s] = "closed"
    /\ timers + starting < MaxSockets
    /\ streak < MaxStarts
    /\ lastConn' = "close"
    /\ LET schedules == SchedulesRestart(variant, statusCode, reconnectAttempts)
           wipes == WipesOnClose(variant, statusCode)
           exits == ExitsOnClose(variant, statusCode, reconnectAttempts)
       IN  /\ reconnectAttempts' =
                 AttemptsAfterClose(variant, statusCode, reconnectAttempts)
           /\ authFolder' = IF wipes THEN "none" ELSE authFolder
           /\ running' = ~exits
           /\ timers' = IF exits THEN 0
                        ELSE IF schedules THEN timers + 1 ELSE timers
           /\ starting' = IF exits THEN 0 ELSE starting
           /\ sockState' = IF exits
                           THEN [i \in DOMAIN sockState |-> "closed"]
                           ELSE sockState
           /\ ev' = [kind |-> "close", sock |-> s, status |-> statusCode,
                     before |-> reconnectAttempts,
                     wiped |-> wipes /\ authFolder = "creds",
                     delay |-> IF schedules /\ ~exits
                               THEN ReconnectDelay(variant, statusCode) ELSE 0]
    /\ loggedOut' = (loggedOut \/ statusCode = LoggedOut)
    /\ streak' = IF Recoverable(variant, statusCode) THEN streak + 1 ELSE 0
    /\ UNCHANGED <<variant, late, health, sock, isConnected, h, post, canonVars>>

\* start_bot.bat: npm start has returned; after ten seconds the loop starts
\* index.js again, whose startBot runs up to its first await
BatRestart ==
    /\ variant = "v2"
    /\ ~running
    /\ running' = TRUE
    /\ reconnectAttempts' = 0
    /\ starting' = 1
    /\ timers' = 0
    /\ lastConn' = "none"
    /\ authFolder' = IF authFolder = "none" THEN "empty" ELSE authFolder
    /\ ev' = [NoEv EXCEPT !.kind = "boot"]
    /\ streak' = 0
    /\ UNCHANGED <<variant, late, health, sock, sockState, isConnected, h, post, canonVars, loggedOut>>

(***************************************************************************)
(* Control API: POST /send                                                 *)
(***************************************************************************)
\* a body field that is absent from the request
UndefinedText == "<undefined>"
\* mutant of FalsyText: only an absent field is refused
FalsyText_UndefinedOnly(t) == t = UndefinedText

\* !x for a text
FalsyText(t) == t \in {"", UndefinedText}
\* !x for a character string
FalsyStr(x) == x \in {Null, <<>>}

\* the messages of the errors sock.sendMessage may reject with
SendErrors == {"Connection Closed", "Timed Out"}

\* acked: how sock.sendMessage settled ("resolved" or the error's message);
\* success, error: the fields of the response body
NoPost ==
    [state |-> "none", phone |-> Null, message |-> UndefinedText, conn |-> "none",
     status |-> 0, jid |-> Null, sent_to |-> Null, via |-> 0, wired |-> 0,
     acked |-> "none", success |-> FALSE, error |-> ""]

\* no GET /health has been answered
NoHealth == [status |-> "none", connected |-> FALSE]

InitApi ==
    /\ post = NoPost
    /\ health = NoHealth

\* mutant of NotConnected: only the socket reference is checked
NotConnected_SockOnly == sock = 0

\* POST /send: !isConnected || !sock
NotConnected == ~isConnected \/ sock = 0

\* POST /send: the jid handed to sock.sendMessage
SendJid(v, phone) ==
    IF v = "v32" /\ "@" \in {phone[i] : i \in 1..Len(phone)}
    THEN phone
    ELSE CleanPhone(phone) \o AT_S_WHATSAPP_NET

\* POST /send: the sent_to field of the success response
SentTo(v, phone) == IF v = "v32" THEN SendJid(v, phone) ELSE CleanPhone(phone)

\* the request bodies: the strings without a JID suffix, and no phone at all
PostPhones ==
    { s \in PhoneInputs : ~EndsWith(s, AT_LID) /\ ~EndsWith(s, AT_S_WHATSAPP_NET) }
        \cup {LOCAL_JID, Null}
PostMessages == {UndefinedText, "", "hello"}

\* POST /send arrives: validation, connection check, formatting and the call
\* of sock.sendMessage, up to the await
PostSend(phone, message) ==
    /\ variant \in ApiVariants
    /\ post.state # "sending"
    /\ LET req == [NoPost EXCEPT !.phone = phone, !.message = message,
                                 !.conn = lastConn, !.via = sock]
       IN  post' =
             IF FalsyStr(phone) \/ FalsyText(message)
             THEN [req EXCEPT !.state = "done", !.status = 400,
                              !.error = "Phone and message required"]
             ELSE IF NotConnected
             THEN [req EXCEPT !.state = "done", !.status = 503,
                              !.error = "Bot not connected to WhatsApp"]
             ELSE [req EXCEPT !.state = "sending", !.jid = SendJid(variant, phone),
                              !.wired = 1]
    /\ UNCHANGED <<variant, late, health, connVars, h, canonVars, supVars>>

\* a route without a catch branch of its own: it answers success whatever
\* became of the send
PostAck_AlwaysSuccess(ok) ==
    /\ post.state = "sending"
    /\ \E e \in SendErrors :
         post' = [post EXCEPT !.state = "done", !.status = 200, !.success = TRUE,
                              !.sent_to = SentTo(variant, post.phone),
                              !.acked = IF ok THEN "resolved" ELSE e]
    /\ UNCHANGED <<variant, late, health, connVars, h, canonVars, supVars>>

\* sock.sendMessage resolves (res.json success) or rejects with an error e
\* (catch: 500 and the error's message)
PostAck(ok) ==
    /\ post.state = "sending"
    /\ \E e \in SendErrors :
         post' = IF ok
                 THEN [post EXCEPT !.state = "done", !.status = 200, !.success = TRUE,
                                   !.sent_to = SentTo(variant, post.phone),
                                   !.acked = "resolved"]
                 ELSE [post EXCEPT !.state = "done", !.status = 500, !.error = e,
                                   !.acked = e]
    /\ UNCHANGED <<variant, late, health, connVars, h, canonVars, supVars>>

\* a health route that answers from the socket reference
Health_FromSock ==
    /\ variant \in ApiVariants
    /\ health' = [status |-> "ok", connected |-> (sock # 0)]
    /\ UNCHANGED <<variant, late, connVars, h, post, canonVars, supVars>>

\* GET /health: res.json({ status: 'ok', connected: isConnected, ... }); the
\* other fields of the body are constants of the script
Health ==
    /\ variant \in ApiVariants
    /\ health' = [status |-> "ok", connected |-> isConnected]
    /\ UNCHANGED <<variant, late, connVars, h, post, canonVars, supVars>>

(***************************************************************************)
(* Inbound events: the messages of a messages.upsert batch                 *)
(***************************************************************************)
Jids == {USER_JID, LOCAL_JID, LID_JID, GROUP_JID, STATUS_BROADCAST}

\* msg.message: present = FALSE is a missing payload; "" is an absent or
\* empty text field
Payload(conv, ext, img, icap, vid, vcap, audio) ==
    [present |-> TRUE, conversation |-> conv, extendedText |-> ext,
     hasImage |-> img, imageCaption |-> icap,
     hasVideo |-> vid, videoCaption |-> vcap, hasAudio |-> audio]

NoPayload == [Payload("", "", FALSE, "", FALSE, "", FALSE) EXCEPT !.present = FALSE]

Payloads ==
    { NoPayload,
      Payload("hi", "", FALSE, "", FALSE, "", FALSE),
      Payload("", "quoted", FALSE, "", FALSE, "", FALSE),
      Payload("", "", TRUE, "cap", FALSE, "", FALSE),
      Payload("", "", TRUE, "", FALSE, "", FALSE),
      Payload("", "", FALSE, "", TRUE, "vcap", FALSE),
      Payload("", "", FALSE, "", FALSE, "", TRUE),
      Payload("hi", "quoted", FALSE, "", FALSE, "", FALSE),
      Payload("", "quoted", TRUE, "cap", FALSE, "", FALSE),
      Payload("", "", FALSE, "", FALSE, "", FALSE) }

Messages ==
    { [message |-> p, fromMe |-> f, remoteJid |-> j, participant |-> q, pushName |-> n] :
        p \in Payloads, f \in BOOLEAN, j \in Jids,
        q \in {Null, PARTICIPANT_JID}, n \in {"", "Asha"} }

\* inputs: the participant field is varied for the direct chats with a
\* full number, under the anonymized scheme and under the phone-number scheme
InboundMessages ==
    { m \in Messages : m.participant = Null \/ m.remoteJid \in {LID_JID, USER_JID} }

NoMsg ==
    [message |-> NoPayload, fromMe |-> FALSE, remoteJid |-> Null, participant |-> Null,
     pushName |-> ""]

(***************************************************************************)
(* Message Normalizer: the drop rules and the extraction of text and       *)
(* sender of each upsert handler                                           *)
(***************************************************************************)
\* the scripts written around processMessage(phone, message, senderName)
RelayVariants == {"v30n8n", "v31", "v32"}

IsGroup(m) == EndsWith(m.remoteJid, AT_G_US)

\* mutant of Skipped: the message's own origin is not checked
Skipped_NoSelfCheck(v, m) ==
    \/ ~m.message.present
    \/ m.remoteJid = STATUS_BROADCAST
    \/ v \in {"v31", "v32"} /\ IsGroup(m)

\* the `continue`s before the text is extracted
Skipped(v, m) ==
    CASE v \in {"v31", "v32"} ->
           \/ ~m.message.present \/ m.fromMe
           \/ m.remoteJid = STATUS_BROADCAST
           \/ IsGroup(m)
      [] v = "v30n8n" ->
           \/ ~m.message.present \/ m.fromMe
           \/ m.remoteJid = STATUS_BROADCAST
      [] OTHER ->
           \/ m.fromMe
           \/ m.remoteJid = STATUS_BROADCAST
           \/ ~m.message.present

\* a || b for texts
OrElse(a, b) == IF a # "" THEN a ELSE b

\* the text extracted from msg.message
ExtractText(v, p) ==
    IF v \in RelayVariants
    THEN OrElse(p.conversation,
                OrElse(p.extendedText,
                       OrElse(IF p.hasImage THEN p.imageCaption ELSE "",
                              OrElse(IF p.hasVideo THEN p.videoCaption ELSE "", ""))))
    ELSE IF p.conversation # "" THEN p.conversation
    ELSE IF p.extendedText # "" THEN p.extendedText
    ELSE IF p.hasImage /\ p.imageCaption # "" THEN OrElse(p.imageCaption, "[Image]")
    ELSE IF p.hasAudio THEN "[Voice message]"
    ELSE ""

\* s.split(c)[0]
BeforeFirst(s, c) ==
    IF \E i \in 1..Len(s) : s[i] = c
    THEN SubSeq(s, 1, (CHOOSE i \in 1..Len(s) : s[i] = c /\ \A j \in 1..(i - 1) : s[j] # c) - 1)
    ELSE s

\* s.replace(p, '') for a literal p: the first occurrence is removed
RemoveFirst(s, p) ==
    LET at == { i \in 1..(Len(s) - Len(p) + 1) : SubSeq(s, i, i + Len(p) - 1) = p }
    IN  IF at = {} THEN s
        ELSE LET i == CHOOSE x \in at : \A y \in at : x <= y
             IN  SubSeq(s, 1, i - 1) \o SubSeq(s, i + Len(p), Len(s))

\* v32 getUserId(jid)
getUserId(jid) ==
    IF FalsyStr(jid) THEN Null
    ELSE StripSuffix(StripSuffix(jid, AT_S_WHATSAPP_NET), AT_LID)

\* mutant of SenderId: key.participant is used whenever it is there
SenderId_ParticipantAlways(v, m) ==
    CASE v = "v31" ->
           IF ~FalsyStr(m.participant)
           THEN extractPhone(m.participant)
           ELSE extractPhone(m.remoteJid)
      [] v = "v32" -> getUserId(m.remoteJid)
      [] v = "v30n8n" -> RemoveFirst(m.remoteJid, AT_S_WHATSAPP_NET)
      [] OTHER -> BeforeFirst(BeforeFirst(m.remoteJid, "@"), ":")

\* the sender id handed to processMessage
SenderId(v, m) ==
    CASE v = "v31" ->
           IF EndsWith(m.remoteJid, AT_LID) /\ ~FalsyStr(m.participant)
           THEN extractPhone(m.participant)
           ELSE extractPhone(m.remoteJid)
      [] v = "v32" -> getUserId(m.remoteJid)
      [] v = "v30n8n" -> RemoveFirst(m.remoteJid, AT_S_WHATSAPP_NET)
      [] OTHER -> BeforeFirst(BeforeFirst(m.remoteJid, "@"), ":")

\* msg.pushName || 'Friend' (the relay scripts; v2 and v30 pass no name)
SenderName(v, m) ==
    IF v \in RelayVariants THEN OrElse(m.pushName, "Friend") ELSE UndefinedText

(***************************************************************************)
(* Fallback Router: processMessage                                         *)
(***************************************************************************)
\* processMessage returned null
NullReply == "<null>"

\* the fixed texts of the scripts, without their leading emoji
APOLOGY_V31 == "Sorry, I'm having trouble. Please try again in a moment."
APOLOGY_V30N8N == "Sorry, I'm having trouble. Please try again."
NOTICE_404_V32 ==
    "Sorry, there's a connection issue. The team is fixing it. Please try again soon!"
ERROR_V2 == "Error processing your request. Please try again."

\* what an axios.post can come back with: a 2xx response with a reply, a 2xx
\* response without one, no response within the timeout, a non-2xx response
Outcomes ==
    { [kind |-> "reply", reply |-> "Saved!", status |-> 200],
      [kind |-> "empty", reply |-> "", status |-> 200],
      [kind |-> "error", reply |-> "", status |-> 0],
      [kind |-> "error", reply |-> "", status |-> 404],
      [kind |-> "error", reply |-> "", status |-> 500] }

\* response.data && response.data.reply
IsReply(o) == o.kind = "reply" /\ o.reply # ""

\* the endpoints processMessage posts to, in the order of the code
Endpoints(v) ==
    CASE v \in RelayVariants -> <<"n8n", "railway">>
      [] v = "v2" -> <<"backend/api/message">>
      [] v = "v30" -> <<"backend/webhook/baileys">>

\* mutant of AfterEndpoint: only a thrown error falls through to the next
\* endpoint, a response without a reply ends the chain
AfterEndpoint_EmptyEndsChain(v, k, o) ==
    IF IsReply(o) THEN [next |-> "return", ret |-> o.reply]
    ELSE IF v \in RelayVariants /\ k = 1 /\ o.kind = "error"
    THEN [next |-> "call", ret |-> NullReply]
    ELSE [next |-> "return", ret |-> NullReply]

\* a processMessage whose catch returns null in every script
AfterEndpoint_CatchReturnsNull(v, k, o) ==
    IF IsReply(o) THEN [next |-> "return", ret |-> o.reply]
    ELSE IF v \in RelayVariants /\ k = 1 THEN [next |-> "call", ret |-> NullReply]
    ELSE [next |-> "return", ret |-> NullReply]

\* processMessage after its k-th axios.post came back with o: post to the
\* next endpoint, or return
AfterEndpoint(v, k, o) ==
    IF IsReply(o) THEN [next |-> "return", ret |-> o.reply]
    ELSE IF v \in RelayVariants /\ k = 1 THEN [next |-> "call", ret |-> NullReply]
    ELSE CASE v = "v31" -> [next |-> "return", ret |-> NullReply]
           [] v = "v32" ->
                [next |-> "return",
                 ret |-> IF o.kind = "error" /\ o.status = 404
                         THEN NOTICE_404_V32 ELSE NullReply]
           [] v = "v30n8n" ->
                [next |-> "return",
                 ret |-> IF o.kind = "error" THEN APOLOGY_V30N8N ELSE NullReply]
           [] v = "v2" ->
                [next |-> "return",
                 ret |-> IF o.kind = "error" THEN ERROR_V2 ELSE NullReply]
           [] v = "v30" -> [next |-> "return", ret |-> NullReply]

\* processMessage run to its end when its k-th, k+1-st, ... posts come back
\* with outs[k], outs[k+1], ...: the endpoints called and the value returned
RECURSIVE RouteFrom(_, _, _)
RouteFrom(v, k, outs) ==
    LET r == AfterEndpoint(v, k, outs[k])
    IN  IF r.next = "return"
        THEN [calls |-> <<Endpoints(v)[k]>>, ret |-> r.ret]
        ELSE LET rest == RouteFrom(v, k + 1, outs)
             IN  [calls |-> <<Endpoints(v)[k]>> \o rest.calls, ret |-> rest.ret]

Route(v, outs) == RouteFrom(v, 1, outs)

\* if (reply)
Truthy(reply) == reply \notin {"", NullReply}

(***************************************************************************)
(* The messages.upsert handler, one step per stretch of code between two   *)
(* awaits.  h.cur is the message of the current iteration of the for loop, *)
(* h.calls / h.outs the endpoints processMessage posted to for it and what *)
(* came back, h.sends the sock.sendMessage calls made for it.              *)
(***************************************************************************)
MaxBatch == 2

Idle ==
    [pc |-> "idle", type |-> "none", left |-> 0, cur |-> NoMsg, verdict |-> "none",
     text |-> "", phone |-> Null, name |-> UndefinedText,
     calls |-> <<>>, outs |-> <<>>, ret |-> NullReply, sends |-> <<>>]

\* no second handler is running.  overtook: its reply was handed to the
\* socket while h was still waiting for the processors of its own message
NoLate ==
    [pc |-> "none", cur |-> NoMsg, calls |-> <<>>, ret |-> NullReply,
     sends |-> <<>>, overtook |-> FALSE]

InitInbound ==
    /\ h = Idle
    /\ late = NoLate

\* a handler without the type check
Upsert_AnyType(type, n) ==
    /\ h.pc = "idle"
    /\ \E s \in Sockets : sockState[s] = "open"
    /\ h' = [Idle EXCEPT !.type = type, !.pc = "loop", !.left = n]
    /\ UNCHANGED <<variant, late, health, connVars, post, canonVars, supVars>>

\* a socket that has emitted 'open' delivers a messages.upsert event of n
\* messages; the handler returns at once unless type is 'notify'
Upsert(type, n) ==
    /\ h.pc = "idle"
    /\ \E s \in Sockets : sockState[s] = "open"
    /\ h' = IF type # "notify"
            THEN [Idle EXCEPT !.type = type]
            ELSE [Idle EXCEPT !.type = type, !.pc = "loop", !.left = n]
    /\ UNCHANGED <<variant, late, health, connVars, post, canonVars, supVars>>

\* a for loop that does not await the reply send before it goes on
LoopNext_SendNotAwaited(m) ==
    /\ h.pc \in {"loop", "sending"}
    /\ h.left > 0
    /\ LET it == [Idle EXCEPT !.type = h.type, !.pc = "loop", !.left = h.left - 1,
                              !.cur = m]
       IN  h' =
             IF Skipped(variant, m)
             THEN [it EXCEPT !.verdict = "skipped"]
             ELSE IF ExtractText(variant, m.message) = ""
             THEN [it EXCEPT !.verdict = "notext"]
             ELSE [it EXCEPT !.verdict = "routing", !.pc = "await",
                             !.text = ExtractText(variant, m.message),
                             !.phone = SenderId(variant, m),
                             !.name = SenderName(variant, m),
                             !.calls = <<Endpoints(variant)[1]>>]
    /\ UNCHANGED <<variant, late, health, connVars, post, canonVars, supVars>>

\* the for loop takes the next message m of the batch: the drop rules, the
\* extraction of text and sender, and processMessage up to its first await
LoopNext(m) ==
    /\ h.pc = "loop"
    /\ h.left > 0
    /\ LET it == [Idle EXCEPT !.type = h.type, !.pc = "loop", !.left = h.left - 1,
                              !.cur = m]
       IN  h' =
             IF Skipped(variant, m)
             THEN [it EXCEPT !.verdict = "skipped"]
             ELSE IF ExtractText(variant, m.message) = ""
             THEN [it EXCEPT !.verdict = "notext"]
             ELSE [it EXCEPT !.verdict = "routing", !.pc = "await",
                             !.text = ExtractText(variant, m.message),
                             !.phone = SenderId(variant, m),
                             !.name = SenderName(variant, m),
                             !.calls = <<Endpoints(variant)[1]>>]
    /\ UNCHANGED <<variant, late, health, connVars, post, canonVars, supVars>>

\* the axios.post in flight comes back with o: processMessage posts to the
\* next endpoint or returns; on a truthy reply the handler calls
\* sock.sendMessage(jid, { text: reply })
EndpointReturn(o) ==
    /\ h.pc = "await"
    /\ LET k == Len(h.calls)
           r == AfterEndpoint(variant, k, o)
           seen == [h EXCEPT !.outs = Append(h.outs, o)]
       IN  h' =
             IF r.next = "call"
             THEN [seen EXCEPT !.calls = Append(h.calls, Endpoints(variant)[k + 1])]
             ELSE IF Truthy(r.ret) /\ (variant # "v30" \/ sock # 0)
             THEN [seen EXCEPT !.ret = r.ret, !.verdict = "returned", !.pc = "sending",
                               !.sends = <<[to |-> h.cur.remoteJid, text |-> r.ret,
                                            result |-> "pending"]>>]
             ELSE [seen EXCEPT !.ret = r.ret, !.verdict = "returned", !.pc = "loop"]
    /\ UNCHANGED <<variant, late, health, connVars, post, canonVars, supVars>>

\* a handler without a catch around the send: the rejection ends it
SendReturn_StopsOnReject(ok) ==
    /\ h.pc = "sending"
    /\ h' = [h EXCEPT !.pc = IF ok THEN "loop" ELSE "idle",
                      !.sends[1].result = IF ok THEN "sent" ELSE "rejected"]
    /\ UNCHANGED <<variant, late, health, connVars, post, canonVars, supVars>>

\* sock.sendMessage resolves or rejects; a rejection is caught and logged
\* (sendMessage's catch, the loop's catch in v2 and v30)
SendReturn(ok) ==
    /\ h.pc = "sending"
    /\ h' = [h EXCEPT !.pc = "loop",
                      !.sends[1].result = IF ok THEN "sent" ELSE "rejected"]
    /\ UNCHANGED <<variant, late, health, connVars, post, canonVars, supVars>>

\* the for loop is over: the handler returns
LoopEnd ==
    /\ h.pc = "loop"
    /\ h.left = 0
    /\ h' = Idle
    /\ UNCHANGED <<variant, late, health, connVars, post, canonVars, supVars>>

\* sock.ev.on does not wait for the promise an async listener returns: while
\* the handler h is suspended at an await, the next messages.upsert event
\* (type 'notify', one message m) starts a second run of the listener, up to
\* the first await of its processMessage
LaterUpsert(m) ==
    /\ h.pc \in {"await", "sending"}
    /\ late.pc = "none"
    /\ \E s \in Sockets : sockState[s] = "open"
    /\ late' =
          IF Skipped(variant, m) \/ ExtractText(variant, m.message) = ""
          THEN [NoLate EXCEPT !.pc = "done", !.cur = m]
          ELSE [NoLate EXCEPT !.pc = "await", !.cur = m,
                              !.calls = <<Endpoints(variant)[1]>>]
    /\ UNCHANGED <<variant, health, connVars, h, post, canonVars, supVars>>

\* the axios.post of the second run comes back with o
LaterEndpointReturn(o) ==
    /\ late.pc = "await"
    /\ LET k == Len(late.calls)
           r == AfterEndpoint(variant, k, o)
       IN  late' =
             IF r.next = "call"
             THEN [late EXCEPT !.calls = Append(late.calls, Endpoints(variant)[k + 1])]
             ELSE IF Truthy(r.ret) /\ (variant # "v30" \/ sock # 0)
             THEN [late EXCEPT !.ret = r.ret, !.pc = "sending",
                               !.sends = <<[to |-> late.cur.remoteJid, text |-> r.ret,
                                            result |-> "pending"]>>,
                               !.overtook = (h.pc = "await")]
             ELSE [late EXCEPT !.ret = r.ret, !.pc = "done"]
    /\ UNCHANGED <<variant, health, connVars, h, post, canonVars, supVars>>

\* sock.sendMessage of the second run resolves or rejects
LaterSendReturn(ok) ==
    /\ late.pc = "sending"
    /\ late' = [late EXCEPT !.pc = "done",
                            !.sends[1].result = IF ok THEN "sent" ELSE "rejected"]
    /\ UNCHANGED <<variant, health, connVars, h, post, canonVars, supVars>>

\* both runs of the listener have returned
LaterEnd ==
    /\ late.pc = "done"
    /\ h.pc = "idle"
    /\ late' = NoLate
    /\ UNCHANGED <<variant, health, connVars, h, post, canonVars, supVars>>

(***************************************************************************)
(* Specifications                                                          *)
(***************************************************************************)
\* the bot has started and its socket is open
InitConnected ==
    /\ sock = 1
    /\ sockState = <<"open">>
    /\ starting = 0
    /\ timers = 0
    /\ isConnected = TRUE
    /\ lastConn = "open"

InitCanonIdle ==
    /\ fnIn = <<>>
    /\ fnOp = "none"
    /\ fnOut = Null

\* Inbound flow: events from an open socket through normalizer, router and
\* reply
Init ==
    /\ variant \in Variants
    /\ InitConnected
    /\ InitInbound
    /\ InitApi
    /\ InitCanonIdle
    /\ InitSupIdle

Next ==
    \/ \E type \in {"notify", "append"}, n \in 0..MaxBatch : Upsert(type, n)
    \/ \E m \in InboundMessages : LoopNext(m)
    \/ \E o \in Outcomes : EndpointReturn(o)
    \/ \E ok \in BOOLEAN : SendReturn(ok)
    \/ LoopEnd

Spec == Init /\ [][Next]_vars

\* Control API and connection handling of the relay scripts
InitApiSpec ==
    /\ variant \in ApiVariants
    /\ InitConn
    /\ InitInbound
    /\ InitApi
    /\ InitCanonIdle
    /\ InitSupIdle

NextApi ==
    \/ MakeSocket
    \/ \E s \in Sockets : ConnOpen(s)
    \/ \E s \in Sockets, c \in CloseStatuses : ConnClose(s, c)
    \/ TimerFire
    \/ \E phone \in {Null, LOCAL_NUMBER}, message \in PostMessages : PostSend(phone, message)
    \/ \E ok \in BOOLEAN : PostAck(ok)
    \/ Health

SpecApi == InitApiSpec /\ [][NextApi]_vars

\* POST /send on every request body, with the bot connected or not yet
InitSendSpec ==
    /\ variant \in ApiVariants
    /\ InitConn \/ InitConnected
    /\ InitInbound
    /\ InitApi
    /\ InitCanonIdle
    /\ InitSupIdle

NextSend ==
    \/ \E phone \in PostPhones, message \in PostMessages : PostSend(phone, message)
    \/ \E ok \in BOOLEAN : PostAck(ok)

SpecSend == InitSendSpec /\ [][NextSend]_vars

\* The canonicalization functions on their own
InitCanonSpec ==
    /\ variant = "v31"
    /\ InitConn
    /\ InitInbound
    /\ InitApi
    /\ InitCanon
    /\ InitSupIdle

NextCanon ==
    \/ ApplyExtractPhone
    \/ ApplyCleanPhone
    \/ ReapplyExtractPhone
    \/ ReapplyCleanPhone

SpecCanon == InitCanonSpec /\ [][NextCanon]_vars

\* The reconnection supervisor of v2 and v30
InitSupSpec ==
    /\ variant \in SupVariants
    /\ InitConn
    /\ InitInbound
    /\ InitApi
    /\ InitCanonIdle
    /\ InitSup

NextSup ==
    \/ SupStart
    \/ SupMakeSocket
    \/ \E s \in Sockets : SupOpen(s)
    \/ \E s \in Sockets, c \in SupCloseStatuses : SupClose(s, c)
    \/ BatRestart

SpecSup == InitSupSpec /\ [][NextSup]_vars

\* a pending timer fires while the process runs
SpecSupFair == SpecSup /\ WF_vars(SupStart)

\* The supervisor when sockets may emit 'close' more than once and sockets
\* of earlier startBot calls still emit events; MaxSockets sockets are made
NextSupStale ==
    \/ SupStart
    \/ Len(sockState) < MaxSockets /\ SupMakeSocket
    \/ \E s \in Sockets : SupOpen(s)
    \/ \E s \in Sockets, c \in SupCloseStatuses : SupClose(s, c)
    \/ \E s \in Sockets, c \in SupCloseStatuses : SupCloseRepeated(s, c)
    \/ BatRestart

SpecSupStale == InitSupSpec /\ [][NextSupStale]_vars

\* The v3.1 relay as a whole: connection handling, inbound flow and
\* POST /send side by side, on one direct text message and one request body
InitRelaySpec ==
    /\ variant = "v31"
    /\ InitConn
    /\ InitInbound
    /\ InitApi
    /\ InitCanonIdle
    /\ InitSupIdle

RelayMessages ==
    { m \in InboundMessages :
        /\ m.remoteJid = USER_JID
        /\ ~m.fromMe
        /\ m.pushName = "Asha"
        /\ m.message = Payload("hi", "", FALSE, "", FALSE, "", FALSE) }

NextRelay ==
    \/ MakeSocket
    \/ \E s \in Sockets : ConnOpen(s)
    \/ \E s \in Sockets, c \in CloseStatuses : ConnClose(s, c)
    \/ TimerFire
    \/ \E n \in 0..MaxBatch : Upsert("notify", n)
    \/ \E m \in RelayMessages : LoopNext(m)
    \/ \E o \in Outcomes : EndpointReturn(o)
    \/ \E ok \in BOOLEAN : SendReturn(ok)
    \/ LoopEnd
    \/ PostSend(LOCAL_NUMBER, "hello")
    \/ \E ok \in BOOLEAN : PostAck(ok)

SpecRelay == InitRelaySpec /\ [][NextRelay]_vars

\* The v3.1 relay when every step of the script itself is taken sooner or
\* later: a timer fires, startBot goes on after its awaits, an axios.post
\* comes back within its timeout, the for loop goes on. Acknowledgements of
\* sock.sendMessage and events from outside are not promised.
SpecRelayFair ==
    /\ SpecRelay
    /\ WF_vars(TimerFire)
    /\ WF_vars(MakeSocket)
    /\ WF_vars(\E m \in RelayMessages : LoopNext(m))
    /\ WF_vars(\E o \in Outcomes : EndpointReturn(o))
    /\ WF_vars(LoopEnd)

\* Two messages.upsert events of the v3.1 relay, the second delivered while
\* the handler of the first is suspended; the socket is open
InitOrderSpec ==
    /\ variant = "v31"
    /\ InitConnected
    /\ InitInbound
    /\ InitApi
    /\ InitCanonIdle
    /\ InitSupIdle

NextOrder ==
    \/ late.pc = "none" /\ \E n \in 0..MaxBatch : Upsert("notify", n)
    \/ \E m \in RelayMessages : LoopNext(m)
    \/ \E o \in Outcomes : EndpointReturn(o)
    \/ \E ok \in BOOLEAN : SendReturn(ok)
    \/ LoopEnd
    \/ \E m \in RelayMessages : LaterUpsert(m)
    \/ \E o \in Outcomes : LaterEndpointReturn(o)
    \/ \E ok \in BOOLEAN : LaterSendReturn(ok)
    \/ LaterEnd

SpecOrder == InitOrderSpec /\ [][NextOrder]_vars

\* The connection handling of the relay scripts when sockets may emit
\* 'close' more than once
NextStale ==
    \/ MakeSocket
    \/ \E s \in Sockets : ConnOpen(s)
    \/ \E s \in Sockets, c \in CloseStatuses : ConnClose(s, c)
    \/ \E s \in Sockets, c \in CloseStatuses : ConnCloseRepeated(s, c)
    \/ TimerFire

SpecStale == InitApiSpec /\ [][NextStale]_vars

(***************************************************************************)
(* Properties                                                              *)
(***************************************************************************)
\* the drop rules as the specification words them: no payload, from self,
\* addressed to the status broadcast, from a group
DroppedByPolicy(m) ==
    \/ ~m.message.present
    \/ m.fromMe
    \/ m.remoteJid = STATUS_BROADCAST
    \/ IsGroup(m)

\* the for loop is done with message h.cur
IterationDone == h.pc = "loop" /\ h.cur # NoMsg

\* processMessage has returned for message h.cur
Returned == h.verdict = "returned"

Failed(o) == ~IsReply(o)

FailureOutcomes == { o \in Outcomes : Failed(o) }

\* C1: in the v3.1 relay every inbound message that no drop rule applies to
\* gets exactly one sock.sendMessage call, to its remoteJid, with non-empty
\* text, whatever the endpoints answered.
C1_ExactlyOneNonEmptyReply ==
    (variant = "v31" /\ IterationDone /\ ~DroppedByPolicy(h.cur))
        => /\ Len(h.sends) = 1
           /\ h.sends[1].to = h.cur.remoteJid
           /\ h.sends[1].text # ""

\* C2: processMessage posts to the endpoints of its chain in order, one at
\* a time and each at most once; a failed endpoint that is not the last is
\* followed by the next one; the first reply ends the chain (no later
\* endpoint is called) and is returned unchanged.
C2_FallbackOrder ==
    /\ h.calls = SubSeq(Endpoints(variant), 1, Len(h.calls))
    /\ Len(h.calls) = Len(h.outs) + (IF h.pc = "await" THEN 1 ELSE 0)
    /\ \A k \in 1..Len(h.outs) :
         IF Failed(h.outs[k])
         THEN k < Len(Endpoints(variant)) => Len(h.calls) >= k + 1
         ELSE /\ k = Len(h.outs)
              /\ Len(h.calls) = k
              /\ Returned
              /\ h.ret = h.outs[k].reply

\* C2 witness: in v3.1 the first endpoint failed, the second replied, both
\* were called once and the second's reply was returned
C2_Witness ==
    /\ variant = "v31"
    /\ Returned
    /\ Len(h.outs) = 2
    /\ Failed(h.outs[1])
    /\ IsReply(h.outs[2])
    /\ h.calls = <<"n8n", "railway">>
    /\ h.ret = h.outs[2].reply

\* C3: when every endpoint of the chain failed, processMessage of the v3.1
\* relay returns the fixed apology string.
C3_AllFailedApology ==
    (variant = "v31" /\ Returned /\ \A k \in 1..Len(h.outs) : Failed(h.outs[k]))
        => h.ret = APOLOGY_V31

\* C4: in the fallback-chain scripts (v3.1, v3.2, v3.0-n8n) the kind of a
\* failure does not matter: had any failed endpoint failed in another way
\* (error, timeout, response without reply), processMessage would have
\* called the same endpoints and returned the same value.
C4_FailureKindsAlike ==
    (variant \in RelayVariants /\ Returned)
        => \A i \in 1..Len(h.outs) :
             Failed(h.outs[i])
                => \A f \in FailureOutcomes :
                     Route(variant, [h.outs EXCEPT ![i] = f])
                        = [calls |-> h.calls, ret |-> h.ret]

\* the events C5 is about: from self, addressed to the status broadcast, or
\* without payload
SelfBroadcastOrEmpty(m) ==
    m.fromMe \/ m.remoteJid = STATUS_BROADCAST \/ ~m.message.present

\* C5: in the v3.1 relay and in index.js a message that is from self,
\* addressed to status@broadcast or without payload causes no endpoint call
\* and no sock.sendMessage call.
C5_SelfBroadcastEmptySilent ==
    (variant \in {"v31", "v2"} /\ h.cur # NoMsg /\ SelfBroadcastOrEmpty(h.cur))
        => /\ h.calls = <<>>
           /\ h.sends = <<>>
           /\ h.pc \in {"loop", "idle"}

\* C5 witness: index.js has gone through a message from self that carries
\* a text, and skipped it
C5_Witness ==
    /\ variant = "v2"
    /\ IterationDone
    /\ h.cur.fromMe
    /\ h.cur.message.present
    /\ h.cur.message.conversation # ""
    /\ h.cur.remoteJid = USER_JID
    /\ h.verdict = "skipped"

\* C6: in every script a message whose remoteJid ends in @g.us causes no
\* endpoint call and no sock.sendMessage call.
C6_GroupSilent ==
    (h.cur # NoMsg /\ IsGroup(h.cur))
        => /\ h.calls = <<>>
           /\ h.sends = <<>>

\* the request body passes the validation of POST /send
ValidBody(q) == ~FalsyStr(q.phone) /\ ~FalsyText(q.message)

\* C7 as stated: every POST /send received while the last connection update
\* was not 'open' is answered 503 and makes no sock.sendMessage call.
C7_NotOpenAlways503 ==
    (post.state # "none" /\ post.conn # "open")
        => /\ post.state = "done"
           /\ post.status = 503
           /\ post.wired = 0

\* C7, amended: a POST /send received while the last connection update was
\* not 'open' is answered at once, 503 if phone and message are present and
\* 400 otherwise, and no sock.sendMessage call is made for it, then or in
\* any later state (also after a later 'open').
C7_NotOpenNoSend ==
    (post.state # "none" /\ post.conn # "open")
        => /\ post.state = "done"
           /\ post.status = (IF ValidBody(post) THEN 503 ELSE 400)
           /\ post.wired = 0

\* C7 witness: a valid request arrived after a 'close', was answered 503,
\* and the connection has opened again since without any send for it
C7_Witness ==
    /\ post.state = "done"
    /\ post.conn = "close"
    /\ ValidBody(post)
    /\ post.status = 503
    /\ post.wired = 0
    /\ isConnected
    /\ lastConn = "open"

\* C8: in the v3.1 relay, when the digits of the phone of a POST /send are
\* exactly ten, the jid handed to sock.sendMessage is '91', those digits,
\* '@s.whatsapp.net'.
C8_TenDigitsGetCountryCode ==
    (variant = "v31" /\ post.wired = 1 /\ Len(DigitsOnly(post.phone)) = 10)
        => post.jid = CC91 \o DigitsOnly(post.phone) \o AT_S_WHATSAPP_NET

\* C9: for every non-empty string, the number formatting of POST /send and
\* extractPhone give the same number.
C9_SameCanonicalization ==
    fnIn # <<>>
        => /\ fnOp = "cleanPhone" => fnOut = extractPhone(fnIn)
           /\ fnOp = "extractPhone" => fnOut = CleanPhone(fnIn)

\* C10: a POST /send whose phone holds no digit (its canonical form is
\* empty) is answered with an error and no sock.sendMessage call is made
\* for it.
C10_UnresolvableFailsFast ==
    (post.state # "none" /\ post.phone # Null /\ DigitsOnly(post.phone) = <<>>)
        => /\ post.wired = 0
           /\ post.state = "done"
           /\ post.status \in {400, 500, 503}

\* the body of a POST /send lacks its recipient or its text, or carries an
\* empty one
MissingOrEmpty(q) ==
    \/ q.phone = Null
    \/ q.phone = <<>>
    \/ q.message = UndefinedText
    \/ q.message = ""

\* C11: a POST /send whose phone or message is missing or empty is answered
\* 400 at once and no sock.sendMessage call is made for it, whether the
\* connection is open or not.
C11_InvalidBodyIs400 ==
    (post.state # "none" /\ MissingOrEmpty(post))
        => /\ post.state = "done"
           /\ post.status = 400
           /\ post.wired = 0

\* C11 witness: a request with a phone and an empty message arrived while
\* the connection was open and was answered 400 without a send
C11_Witness ==
    /\ isConnected
    /\ post.conn = "open"
    /\ post.phone = CC91 \o D8
    /\ post.message = ""
    /\ post.status = 400
    /\ post.wired = 0

\* a jid without its transport suffix
WithoutTransportSuffix(jid) == StripSuffix(StripSuffix(jid, AT_S_WHATSAPP_NET), AT_LID)

\* processMessage of the v3.1 relay has returned the reply of the endpoint
\* it called last, for a message no drop rule applies to
HealthyEndpointReplied ==
    /\ variant = "v31"
    /\ Returned
    /\ ~DroppedByPolicy(h.cur)
    /\ h.outs # <<>>
    /\ IsReply(h.outs[Len(h.outs)])

\* what C12 says of the call and of the reply, apart from the sender id:
\* the healthy endpoint was called once, with a text of the message and
\* with pushName or 'Friend', and its reply went unchanged to remoteJid
CalledOnceAndReplied ==
    /\ Len(h.calls) = Len(h.outs)
    /\ \A i, j \in 1..Len(h.calls) : h.calls[i] = h.calls[j] => i = j
    /\ h.text # ""
    /\ h.text \in {h.cur.message.conversation, h.cur.message.extendedText,
                   h.cur.message.imageCaption, h.cur.message.videoCaption}
    /\ h.name = (IF h.cur.pushName = "" THEN "Friend" ELSE h.cur.pushName)
    /\ Len(h.sends) = 1
    /\ h.sends[1].to = h.cur.remoteJid
    /\ h.sends[1].text = h.outs[Len(h.outs)].reply

\* C12 as stated: for a non-dropped direct message whose endpoint replies,
\* the endpoint is called once with the remoteJid stripped of its suffix as
\* sender id, the text and pushName or 'Friend', and the reply is sent
\* unchanged to the remoteJid.
C12_SenderIsStrippedJid ==
    HealthyEndpointReplied
        => /\ CalledOnceAndReplied
           /\ h.phone = WithoutTransportSuffix(h.cur.remoteJid)

\* the digits of a jid without its suffix, with 91 in front of ten digits
CanonicalDigits(jid) ==
    LET d == DigitsOnly(WithoutTransportSuffix(jid))
    IN  IF Len(d) = 10 THEN CC91 \o d ELSE d

\* C12, amended: the sender id is the canonical number of the remoteJid
\* (suffix and non-digits removed, 91 put before ten digits), or that of
\* key.participant when the remoteJid ends in @lid and a participant is
\* given; the rest as stated.
C12_SenderIsCanonicalNumber ==
    HealthyEndpointReplied
        => /\ CalledOnceAndReplied
           /\ h.phone =
                 IF EndsWith(h.cur.remoteJid, AT_LID) /\ h.cur.participant # Null
                 THEN CanonicalDigits(h.cur.participant)
                 ELSE CanonicalDigits(h.cur.remoteJid)

\* C12 witness: a message from a ten-digit jid without pushName; n8n
\* replied, was called with 91 and the ten digits and 'Friend', and the
\* reply was sent to the ten-digit jid
C12_Witness ==
    /\ HealthyEndpointReplied
    /\ h.cur.remoteJid = LOCAL_JID
    /\ h.cur.pushName = ""
    /\ h.calls = <<"n8n">>
    /\ h.phone = CC91 \o LOCAL_NUMBER
    /\ h.name = "Friend"
    /\ h.pc = "loop"
    /\ h.sends = <<[to |-> LOCAL_JID, text |-> "Saved!", result |-> "sent"]>>

\* the connection.update handled last was a close the script reconnects
\* after, and it has scheduled a restart
ReconnectScheduled ==
    /\ ev.kind = "close"
    /\ Recoverable(variant, ev.status)
    /\ ev.delay > 0

\* the delay of the first reconnect
BackoffBase(v) == ReconnectDelay(v, 408)

\* the caps a doubling sequence can have: twice the base and more
BackoffCaps(v) == { BackoffBase(v) * 2^j : j \in 1..MaxStarts }

MinOf(a, b) == IF a <= b THEN a ELSE b

\* C13: in v2 and v30 the delay of the restart scheduled by the k-th close
\* in a row (no 'open' between) is min(base * 2^(k-1), cap) for some cap
\* above base: base, 2*base, 4*base, ...
C13_ExponentialBackoff ==
    ReconnectScheduled
        => \E cap \in BackoffCaps(variant) :
             ev.delay = MinOf(BackoffBase(variant) * 2^(streak - 1), cap)

\* no socket is connecting or open
Disconnected == \A s \in Sockets : sockState[s] = "closed"

\* a startBot call is scheduled or under way
RestartPending == timers + starting > 0

\* C14: in v30, the recoverable close that follows MAX_RECONNECT recoverable
\* closes in a row (no 'open' between) removes the credentials and schedules
\* a restart, and the running bot is never left disconnected with no
\* restart pending.
C14_BudgetSpentWipesAndRestarts ==
    variant = "v30"
        => /\ (ev.kind = "close" /\ Recoverable(variant, ev.status)
                  /\ streak = MAX_RECONNECT_V30 + 1)
                => (authFolder # "creds" /\ ev.delay > 0)
           /\ (running /\ Disconnected) => RestartPending

\* C15: in index.js every close with a status other than loggedOut is
\* followed, sooner or later, by a startBot call, and the startBot call that
\* follows the fifth close in a row (no 'open' between) empties the auth
\* folder and sets reconnectAttempts to 0.
C15_ReconnectsAndWipesAfterFive ==
    /\ [](variant = "v2" /\ ev.kind = "start" /\ streak = MAX_RECONNECT_V2
             => authFolder = "empty" /\ reconnectAttempts = 0)
    /\ (variant = "v2" /\ ev.kind = "close" /\ ev.status # LoggedOut)
           ~> (ev.kind = "start")

\* C15 witness: index.js held credentials, five sockets closed in a row
\* with timeouts, and the startBot call after the fifth close has removed
\* the folder's content and reset the counter from 5 to 0
C15_Witness ==
    /\ variant = "v2"
    /\ ev.kind = "start"
    /\ ev.before = MAX_RECONNECT_V2
    /\ ev.wiped
    /\ streak = MAX_RECONNECT_V2
    /\ ~loggedOut
    /\ authFolder = "empty"
    /\ reconnectAttempts = 0
    /\ Len(sockState) = MAX_RECONNECT_V2

\* C16: in v2 and v30, once a connection.update with connection 'open' has
\* been handled reconnectAttempts is 0, whatever it was before.
C16_OpenResetsCounter ==
    ev.kind = "open" => reconnectAttempts = 0

\* C16 witness: v30 had used its whole budget of three reconnects when a
\* socket opened, and the counter is back at 0
C16_Witness ==
    /\ variant = "v30"
    /\ ev.kind = "open"
    /\ ev.before = MAX_RECONNECT_V30
    /\ sockState[ev.sock] = "open"
    /\ reconnectAttempts = 0

\* C17: in the v3.1 relay, once a close with status loggedOut has been
\* handled no step starts a connection attempt (a startBot call, a new
\* socket) and no step calls sock.sendMessage, for a reply or for a
\* POST /send.
C17_LoggedOutIsTerminal ==
    [][loggedOut
         => /\ starting' <= starting
            /\ Len(sockState') = Len(sockState)
            /\ h'.pc = "sending" => h.pc = "sending"
            /\ post'.state = "sending" => post.state = "sending"]_vars

\* a step that starts a connection attempt: a startBot call or a new socket
StartsAttempt == starting' > starting \/ Len(sockState') > Len(sockState)

\* C18: in v30 a close with status loggedOut leaves no credentials behind,
\* and once it has been handled no step starts a connection attempt.
C18_LoggedOutStopsRetries ==
    /\ [](variant = "v30" /\ ev.kind = "close" /\ ev.status = LoggedOut
             => authFolder # "creds")
    /\ [][variant = "v30" /\ loggedOut => ~StartsAttempt]_vars

\* C19: index.js under start_bot.bat: a close with status loggedOut leaves
\* no credentials behind, and once it has been handled no step starts a
\* connection attempt (the model has no operator).
C19_LoggedOutEndsAttempts ==
    /\ [](variant = "v2" /\ ev.kind = "close" /\ ev.status = LoggedOut
             => authFolder # "creds")
    /\ [][variant = "v2" /\ loggedOut => ~StartsAttempt]_vars

\* a step that deletes stored credentials
DeletesCredentials == authFolder = "creds" /\ authFolder' # "creds"

\* C20 as stated: in v2 and v30 the only step that deletes stored
\* credentials is the handling of a close with status loggedOut.
C20_WipedOnlyOnLogout ==
    [][DeletesCredentials => (ev'.kind = "close" /\ ev'.status = LoggedOut)]_vars

\* C20, amended: stored credentials are deleted only by the close handler
\* of v30, on status loggedOut or 440, and by a startBot call of v2 that
\* finds reconnectAttempts at MAX_RECONNECT or above.
C20_WipedOnLogoutConflictOrBudget ==
    [][DeletesCredentials
         => \/ /\ variant = "v30"
               /\ ev'.kind = "close"
               /\ ev'.status \in {LoggedOut, Conflict}
            \/ /\ variant = "v2"
               /\ ev'.kind = "start"
               /\ ev'.before >= MAX_RECONNECT_V2]_vars

\* C20 witness: v30 held credentials when a socket closed with status 440
\* (no logout before), and the auth folder is gone
C20_Witness ==
    /\ variant = "v30"
    /\ ev.kind = "close"
    /\ ev.status = Conflict
    /\ ev.wiped
    /\ authFolder = "none"
    /\ ~loggedOut

\* C21: in the v3.1 relay and in index.js every message no drop rule
\* applies to has reached processMessage with a non-empty text by the end
\* of its loop iteration, a placeholder if the payload has no text field.
C21_NoSilentDropForLackOfText ==
    (variant \in {"v31", "v2"} /\ IterationDone /\ ~DroppedByPolicy(h.cur))
        => /\ h.verdict = "returned"
           /\ h.text # ""
           /\ h.calls # <<>>

\* the handler has gone past its drop rules with message h.cur
PastDropRules == h.cur # NoMsg /\ h.verdict # "skipped"

\* the caption of the media of a payload
MediaCaption(p) ==
    IF p.hasImage /\ p.imageCaption # "" THEN p.imageCaption
    ELSE IF p.hasVideo THEN p.videoCaption
    ELSE ""

\* C22: in the v3.1 relay and in index.js the text taken from a payload is
\* its conversation if that is not empty, else its extended text if that
\* is not empty, else its media caption if that is not empty, else a
\* placeholder if the payload is a voice note.
C22_TextPrecedence ==
    (variant \in {"v31", "v2"} /\ PastDropRules)
        => LET p == h.cur.message
           IN  IF p.conversation # "" THEN h.text = p.conversation
               ELSE IF p.extendedText # "" THEN h.text = p.extendedText
               ELSE IF MediaCaption(p) # "" THEN h.text = MediaCaption(p)
               ELSE IF p.hasAudio THEN h.text # ""
               ELSE TRUE

\* processMessage has been called for message h.cur
Forwarded == h.cur # NoMsg /\ h.calls # <<>>

\* C23: in the v3.1 relay the sender id of a forwarded message whose
\* remoteJid ends in @lid is the canonical number of key.participant if
\* there is one and that of the remoteJid otherwise; for any other
\* remoteJid it is the canonical number of the remoteJid, whether there is
\* a key.participant or not.
C23_LidPrefersParticipant ==
    (variant = "v31" /\ Forwarded)
        => IF EndsWith(h.cur.remoteJid, AT_LID)
           THEN IF h.cur.participant # Null
                THEN h.phone = CanonicalDigits(h.cur.participant)
                ELSE h.phone = CanonicalDigits(h.cur.remoteJid)
           ELSE h.phone = CanonicalDigits(h.cur.remoteJid)

\* C23 witness: a message from an @lid jid with a key.participant is
\* forwarded under the participant's number, 91 put before its ten digits
C23_Witness ==
    /\ variant = "v31"
    /\ Forwarded
    /\ h.cur.remoteJid = LID_JID
    /\ h.cur.participant = PARTICIPANT_JID
    /\ h.phone = CC91 \o <<"7", "0">> \o D8

\* the sock.sendMessage calls that have not resolved or rejected yet
SendsInFlight ==
    (IF h.pc = "sending" THEN 1 ELSE 0) + (IF post.state = "sending" THEN 1 ELSE 0)

\* C24: in the v3.1 relay at most one sock.sendMessage call is in flight at
\* any time: a reply send and a POST /send send never overlap.
C24_SendsSerialized == SendsInFlight <= 1

\* the sockets that are connecting or open
LiveSockets == { s \in Sockets : sockState[s] \in {"connecting", "open"} }

\* C25: whatever connection.update events arrive, repeated 'close' events
\* of one socket and events of earlier sockets included, the startBot
\* calls under way and the live sockets are never more than one together.
C25_OneAttemptAtATime == starting + Cardinality(LiveSockets) <= 1

\* C26: in the v3.1 relay a sock.sendMessage call does not stay pending for
\* ever, even without acknowledgement: a POST /send that has called it gets
\* its response, and the for loop of the upsert handler gets past it.
C26_SendsAreBounded ==
    /\ (post.state = "sending") ~> (post.state = "done")
    /\ (h.pc = "sending") ~> (h.pc # "sending")

\* C27: in the v3.1 relay sock.sendMessage is called only while the
\* connection is open, for a reply as for a POST /send: a reply that comes
\* back from the processors after the handler has seen 'close' is not handed
\* to the socket.
C27_NoSendUnlessOpen ==
    [][/\ (h.pc # "sending" /\ h'.pc = "sending") => isConnected
       /\ (post.state # "sending" /\ post'.state = "sending") => isConnected]_vars

\* C28: a reply is handed to sock.sendMessage at most once, and when the
\* socket rejects it the handler is back in its for loop, with the messages
\* of the batch that were left still to handle and no send under way.
C28_RejectedReplyIsDropped ==
    /\ Len(h.sends) <= 1
    /\ (h.sends # <<>> /\ h.sends[1].result = "rejected")
          => (h.pc = "loop" /\ SendsInFlight = 0)

\* C28 witness: the reply to the first message of a batch of two was
\* rejected and the second message is still to come
C28_Witness ==
    /\ h.pc = "loop"
    /\ h.left > 0
    /\ h.sends # <<>>
    /\ h.sends[1].result = "rejected"

\* C29: when sock.sendMessage rejects the send of a POST /send, the response
\* has status 500 and an error field holding the message of the rejection,
\* it has no success: true and no sent_to, and sock.sendMessage was called
\* once for the request.
C29_RejectedSendIs500 ==
    /\ post.wired <= 1
    /\ post.acked \in SendErrors
          => /\ post.state = "done"
             /\ post.status = 500
             /\ post.error = post.acked
             /\ ~post.success
             /\ post.sent_to = Null
             /\ post.wired = 1

\* C29 witness: a request with a full number and a text was handed to the
\* open socket, the socket rejected it, and the response is the 500
C29_Witness ==
    /\ post.phone = CC91 \o D8
    /\ post.message = "hello"
    /\ post.acked = "Timed Out"
    /\ post.status = 500
    /\ post.error = "Timed Out"

\* C30: a step that answers GET /health leaves the connection flag, the
\* socket reference, the sockets, the startBot calls under way, the pending
\* reconnect timers, the POST /send in flight and the upsert handler as they
\* were, and the connected field of the answer is the connection flag at
\* that moment.
C30_HealthIsReadOnly ==
    [][health' # health
         => /\ UNCHANGED <<isConnected, sock, sockState, starting, timers>>
            /\ UNCHANGED <<post, h>>
            /\ health'.status = "ok"
            /\ health'.connected = isConnected]_vars

\* C30 witness: GET /health was answered connected: false while a reconnect
\* timer was pending and the global still pointed at the closed socket; the
\* timer is still pending
C30_Witness ==
    /\ health = [status |-> "ok", connected |-> FALSE]
    /\ timers = 1
    /\ sock # 0
    /\ sockState[sock] = "closed"
    /\ ~isConnected

\* C31: in index.js, once the one axios.post of processMessage has failed
\* (no response, a timeout, a non-2xx status), the handler has called
\* sock.sendMessage exactly once for the message, to the chat it came from
\* and with the fixed error text.
C31_BackendFailureIsAnswered ==
    (variant = "v2" /\ h.outs # <<>> /\ h.outs[1].kind = "error")
        => /\ h.pc \in {"sending", "loop"}
           /\ h.calls = <<"backend/api/message">>
           /\ Len(h.sends) = 1
           /\ h.sends[1].to = h.cur.remoteJid
           /\ h.sends[1].text = ERROR_V2

\* C31 witness: the backend did not answer a direct text message within the
\* timeout, and the socket has taken the error text
C31_Witness ==
    /\ variant = "v2"
    /\ h.cur.remoteJid = USER_JID
    /\ h.outs = <<[kind |-> "error", reply |-> "", status |-> 0]>>
    /\ h.sends # <<>>
    /\ h.sends[1].text = ERROR_V2
    /\ h.sends[1].result = "sent"

\* C32: in the v3.1 relay, whenever isConnected is true the socket the
\* global sock refers to has emitted 'open' and has not emitted 'close'
\* since, also when sockets emit 'close' more than once and sockets made by
\* earlier startBot calls still emit events.
C32_FlagTracksCurrentSocket ==
    (variant = "v31" /\ isConnected) => (sock # 0 /\ sockState[sock] = "open")

\* C33: in the v3.1 relay the reply to a message of an earlier
\* messages.upsert event is handed to sock.sendMessage before the reply to a
\* message of a later event: no reply of the earlier handler is handed over
\* after the later handler's reply went out ahead of it.
C33_RepliesInArrivalOrder ==
    ~(late.overtook /\ h.sends # <<>>)

\* C34: a step in which the for loop takes the next message of the batch is
\* taken only when the handler is between two iterations: every axios.post
\* made for the message before has come back, processMessage has returned
\* for it, and the sock.sendMessage call made for its reply, if any, has
\* resolved or rejected.
C34_OneMessageAtATime ==
    [][h'.left < h.left
         => /\ h.pc = "loop"
            /\ Len(h.outs) = Len(h.calls)
            /\ h.calls # <<>> => h.verdict = "returned"
            /\ h.sends # <<>> => h.sends[1].result \in {"sent", "rejected"}]_vars

\* C34 witness: the reply to the first message of a batch of two has been
\* taken by the socket, after two processor calls, and the loop is about to
\* take the second message
C34_Witness ==
    /\ h.pc = "loop"
    /\ h.left = 1
    /\ Len(h.calls) = 2
    /\ Len(h.outs) = 2
    /\ h.sends # <<>>
    /\ h.sends[1].result = "sent"

\* C35: reconnectAttempts is an integer from 0 to MAX_RECONNECT (5 in
\* index.js, 3 in part_004) in every state, also when sockets emit 'close'
\* more than once and sockets of earlier startBot calls still emit events.
C35_CounterInRange ==
    /\ variant = "v2" => reconnectAttempts \in 0..5
    /\ variant = "v30" => reconnectAttempts \in 0..3

\* C35 witness: index.js has just handled a recoverable close with its
\* counter already at 5, after more closes in a row than sockets were ever
\* made; the counter is still 5
C35_Witness ==
    /\ variant = "v2"
    /\ ev.kind = "close"
    /\ ev.status = 408
    /\ ev.before = 5
    /\ reconnectAttempts = 5
    /\ streak > Len(sockState)

C37_OnlyNotifyIsHandled ==
    h.type # "notify"
        => /\ h.pc = "idle"
           /\ h.cur = NoMsg
           /\ h.calls = <<>>
           /\ h.sends = <<>>

\* C37 witness: an event of type 'append' was delivered and the handler has
\* returned
C37_Witness ==
    /\ h.type = "append"
    /\ h.pc = "idle"
    /\ h.calls = <<>>
    /\ h.sends = <<>>

\* C38: applying extractPhone to the value it returned gives that value
\* again, for every input string, and so does the number formatting of
\* POST /send applied to the number it produced.
C38_CanonicalizationIdempotent ==
    [][fnOp' \in {"extractPhone twice", "cleanPhone twice"} => fnOut' = fnOut]_vars

====
